---- MODULE Spec2Model ----
(***************************************************************************)
(* A model of the AtaToken (DummyToken) claim-once ERC20 contract and of   *)
(* the React client that reads it and submits transactions to it and to    *)
(* the staking vault.                                                      *)
(*                                                                         *)
(* One action of the chain part is one mined transaction (the EVM runs a   *)
(* transaction atomically; a revert leaves the contract storage as it      *)
(* was).  One action of the client part is one run of JavaScript between   *)
(* two awaits: a handler up to its next await, or the continuation that    *)
(* runs when an awaited promise settles.                                   *)
(***************************************************************************)
EXTENDS Integers, Sequences, FiniteSets, TLC

(***************************************************************************)
(* Bounds of the model.                                                    *)
(***************************************************************************)
\* decimals() of the token.  The deployed token answers 18; the model keeps
\* the exponent small so that 10^decimals fits TLC's integers.  No claim
\* depends on the exponent.
decimals == 1
\* Transactions mined (blocks produced) in one behaviour.
MaxBlock == 3
\* Largest whole-token amount a transfer, approval or stake form carries.
MaxAmount == 2
\* User actions (clicks, account switches) in one behaviour; each issues at
\* most one getBalanceAndClaimed call.
MaxActions == 3

(***************************************************************************)
(* Addresses.                                                              *)
(***************************************************************************)
Accounts == {"a1", "a2"}
STAKING_ADDRESS == "staking"
Addresses == Accounts \cup {STAKING_ADDRESS}

(***************************************************************************)
(* Constants of the contract.                                              *)
(***************************************************************************)
CLAIM_STATUS_PENDING == 0
CLAIM_STATUS_CLAIMED == 1

RECURSIVE Pow10(_)
Pow10(n) == IF n = 0 THEN 1 ELSE 10 * Pow10(n - 1)

ConstructorMintsReward == 1000 * Pow10(decimals)
initialSupply == 1000000 * Pow10(decimals)
rewardAmount == 1000 * Pow10(decimals)

\* Token amounts (base units) that transactions sent straight to the chain
\* carry: one token and the largest amount.
Amounts == {Pow10(decimals), MaxAmount * Pow10(decimals)}

\* type(uint256).max, the unlimited allowance that ERC20.transferFrom does not
\* spend; the model's unsigned integers are 31 bits wide.
UINT_MAX == 2147483647

VARIABLES
  \* ---- AtaToken storage
  balances,      \* ERC20 _balances
  totalSupply,   \* ERC20 _totalSupply
  allowances,    \* ERC20 _allowances, <<owner, spender>> -> amount
  claimants,     \* mapping(address => uint8) claimants
  \* ---- staking vault storage
  staked,        \* stakedOf
  \* ---- chain
  blockNumber,   \* transactions mined so far
  lastTx,        \* the transaction mined last and its outcome
  \* ---- history of the claim calls (not program state)
  claimLog,      \* per account, the outcomes of its claim calls, in order
  mintedByClaim, \* per account, the total amount claim minted to it
  \* ---- React client
  account,       \* App state: the wallet's active account
  balance,       \* token component state: last-known formatted balance
  claimed,       \* token component state: last-known claim status
  reads,         \* getBalanceAndClaimed calls in flight
  issued,        \* getBalanceAndClaimed calls issued so far
  cacheFrom,     \* history: the call whose result balance and claimed hold
  lastRead,      \* history: the call that completed last, and what it returned
  actions,       \* user actions so far
  claimH,        \* the claim handler of the token component
  stakeH,        \* handleStake of the staking component
  rewardH        \* handleClaimReward of the staking component

chainVars == <<balances, totalSupply, allowances, claimants, staked,
               blockNumber, lastTx, claimLog, mintedByClaim>>

clientVars == <<account, balance, claimed, reads, issued, cacheFrom, lastRead,
                actions, claimH, stakeH, rewardH>>

vars == <<chainVars, clientVars>>

NoTx == [op |-> "none", sender |-> "none", from |-> "none", to |-> "none",
         amount |-> 0, ok |-> TRUE, error |-> ""]

Tx(op, sender, from, to, amount, error) ==
  [op |-> op, sender |-> sender, from |-> from, to |-> to, amount |-> amount,
   ok |-> (error = ""), error |-> error]

(***************************************************************************)
(* ERC20 (the base contract of AtaToken).                                  *)
(***************************************************************************)
\* _mint(account, amount): the balances after it.
_mint(bal, to, amount) == [bal EXCEPT ![to] = @ + amount]

\* _transfer(from, to, amount): the balances after it (from may equal to).
_transfer(bal, from, to, amount) ==
  [a \in Addresses |->
     bal[a] - (IF a = from THEN amount ELSE 0) + (IF a = to THEN amount ELSE 0)]

\* _spendAllowance(owner, spender, amount): the allowances after it.
SpendClearsAllowance(al, owner, spender, amount) ==
  [al EXCEPT ![<<owner, spender>>] = 0]
_spendAllowance(al, owner, spender, amount) ==
  IF al[<<owner, spender>>] = UINT_MAX
    THEN al
    ELSE [al EXCEPT ![<<owner, spender>>] = @ - amount]

\* Why transferFrom(from, to, amount) called by spender reverts ("" when it
\* does not).
TransferFromError(spender, from, amount) ==
  IF allowances[<<from, spender>>] < amount
    THEN "ERC20: insufficient allowance"
    ELSE IF balances[from] < amount
      THEN "ERC20: transfer amount exceeds balance"
      ELSE ""

(***************************************************************************)
(* AtaToken.                                                               *)
(***************************************************************************)
hasClaimed(_account) == claimants[_account] = CLAIM_STATUS_CLAIMED

\* require(!hasClaimed(msg.sender), "Already claimed")
ClaimGuardMissing(sender) == ""
ClaimError(sender) == IF hasClaimed(sender) THEN "Already claimed" ELSE ""

\* claimants[msg.sender] = CLAIM_STATUS_CLAIMED
MarkClaimedOverwrites(sender) ==
  [a \in Accounts |->
     IF a = sender THEN CLAIM_STATUS_CLAIMED ELSE CLAIM_STATUS_PENDING]
MarkEveryoneClaimed(sender) == [a \in Accounts |-> CLAIM_STATUS_CLAIMED]
MarkClaimed(sender) == [claimants EXCEPT ![sender] = CLAIM_STATUS_CLAIMED]

\* The amount claim() mints.
ClaimMintsInitialSupply == initialSupply
ClaimMintAmount == rewardAmount

\* A mined transaction that reverted: storage as it was.
FailsAfterMint(tx) ==
  /\ lastTx' = tx
  /\ blockNumber' = blockNumber + 1
  /\ balances' = _mint(balances, tx.to, tx.amount)
  /\ totalSupply' = totalSupply + tx.amount
  /\ UNCHANGED <<allowances, claimants, staked, mintedByClaim>>
Reverted(tx) ==
  /\ lastTx' = tx
  /\ blockNumber' = blockNumber + 1
  /\ UNCHANGED <<balances, totalSupply, allowances, claimants, staked,
                 mintedByClaim>>

\* claim() sent by sender.
claim(sender) ==
  /\ blockNumber < MaxBlock
  /\ LET error == ClaimError(sender)
         tx == Tx("claim", sender, "none", sender, ClaimMintAmount, error)
     IN  /\ claimLog' = [claimLog EXCEPT ![sender] =
                           Append(@, IF error = "" THEN "ok" ELSE error)]
         /\ IF error # ""
              THEN Reverted(tx)
              ELSE /\ balances' = _mint(balances, sender, ClaimMintAmount)
                   /\ totalSupply' = totalSupply + ClaimMintAmount
                   /\ mintedByClaim' =
                        [mintedByClaim EXCEPT ![sender] = @ + ClaimMintAmount]
                   /\ claimants' = MarkClaimed(sender)
                   /\ lastTx' = tx
                   /\ blockNumber' = blockNumber + 1
                   /\ UNCHANGED <<allowances, staked>>

\* transfer(to, amount) sent by sender.
transfer(sender, to, amount) ==
  /\ blockNumber < MaxBlock
  /\ UNCHANGED claimLog
  /\ LET error == IF balances[sender] < amount
                    THEN "ERC20: transfer amount exceeds balance" ELSE ""
         tx == Tx("transfer", sender, sender, to, amount, error)
     IN  IF error # ""
           THEN Reverted(tx)
           ELSE /\ balances' = _transfer(balances, sender, to, amount)
                /\ lastTx' = tx
                /\ blockNumber' = blockNumber + 1
                /\ UNCHANGED <<totalSupply, allowances, claimants, staked,
                               mintedByClaim>>

\* approve(spender, amount) sent by sender.
approve(sender, spender, amount) ==
  /\ blockNumber < MaxBlock
  /\ allowances' = [allowances EXCEPT ![<<sender, spender>>] = amount]
  /\ lastTx' = Tx("approve", sender, sender, spender, amount, "")
  /\ blockNumber' = blockNumber + 1
  /\ UNCHANGED <<balances, totalSupply, claimants, staked, claimLog,
                 mintedByClaim>>

\* transferFrom(from, to, amount) sent by sender.
transferFrom(sender, from, to, amount) ==
  /\ blockNumber < MaxBlock
  /\ UNCHANGED claimLog
  /\ LET error == TransferFromError(sender, from, amount)
         tx == Tx("transferFrom", sender, from, to, amount, error)
     IN  IF error # ""
           THEN Reverted(tx)
           ELSE /\ allowances' = _spendAllowance(allowances, from, sender, amount)
                /\ balances' = _transfer(balances, from, to, amount)
                /\ lastTx' = tx
                /\ blockNumber' = blockNumber + 1
                /\ UNCHANGED <<totalSupply, claimants, staked, mintedByClaim>>

(***************************************************************************)
(* The staking vault: stake pulls the tokens with the allowance the staker *)
(* gave it, withdraw sends them back, claimReward pays out of the vault's  *)
(* own accounting and moves no staked token.                               *)
(***************************************************************************)
stake(sender, amount) ==
  /\ blockNumber < MaxBlock
  /\ UNCHANGED claimLog
  /\ LET error == TransferFromError(STAKING_ADDRESS, sender, amount)
         tx == Tx("stake", sender, sender, STAKING_ADDRESS, amount, error)
     IN  IF error # ""
           THEN Reverted(tx)
           ELSE /\ allowances' =
                     _spendAllowance(allowances, sender, STAKING_ADDRESS, amount)
                /\ balances' = _transfer(balances, sender, STAKING_ADDRESS, amount)
                /\ staked' = [staked EXCEPT ![sender] = @ + amount]
                /\ lastTx' = tx
                /\ blockNumber' = blockNumber + 1
                /\ UNCHANGED <<totalSupply, claimants, mintedByClaim>>

withdraw(sender, amount) ==
  /\ blockNumber < MaxBlock
  /\ UNCHANGED claimLog
  /\ LET error == IF staked[sender] < amount THEN "insufficient stake" ELSE ""
         tx == Tx("withdraw", sender, STAKING_ADDRESS, sender, amount, error)
     IN  IF error # ""
           THEN Reverted(tx)
           ELSE /\ balances' = _transfer(balances, STAKING_ADDRESS, sender, amount)
                /\ staked' = [staked EXCEPT ![sender] = @ - amount]
                /\ lastTx' = tx
                /\ blockNumber' = blockNumber + 1
                /\ UNCHANGED <<totalSupply, allowances, claimants, mintedByClaim>>

claimReward(sender) ==
  /\ blockNumber < MaxBlock
  /\ lastTx' = Tx("claimReward", sender, STAKING_ADDRESS, sender, 0, "")
  /\ blockNumber' = blockNumber + 1
  /\ UNCHANGED <<balances, totalSupply, allowances, claimants, staked,
                 claimLog, mintedByClaim>>

(***************************************************************************)
(* The state after deployment: the constructor mints the initial supply to *)
(* the deployer; every other mapping entry is zero.                        *)
(***************************************************************************)
ConstructorMarksDeployer(deployer) ==
  [a \in Accounts |->
     IF a = deployer THEN CLAIM_STATUS_CLAIMED ELSE CLAIM_STATUS_PENDING]
ConstructorClaimants(deployer) == [a \in Accounts |-> CLAIM_STATUS_PENDING]

ChainInit ==
  /\ \E deployer \in Accounts :
       /\ balances = _mint([a \in Addresses |-> 0], deployer, initialSupply)
       /\ claimants = ConstructorClaimants(deployer)
  /\ totalSupply = initialSupply
  /\ allowances = [p \in Accounts \X Addresses |-> 0]
  /\ staked = [a \in Accounts |-> 0]
  /\ blockNumber = 0
  /\ lastTx = NoTx
  /\ claimLog = [a \in Accounts |-> <<>>]
  /\ mintedByClaim = [a \in Accounts |-> 0]

(***************************************************************************)
(* The client: conversions.                                                *)
(***************************************************************************)
\* ethers.utils.formatEther: base units to a decimal string, here the pair
\* <<whole part, fractional part>>.
formatEther(wei) == <<wei \div Pow10(decimals), wei % Pow10(decimals)>>

\* The text of the stake form: a string of digits, empty until the user types.
StakeInputs == {<<>>, <<0>>, <<1>>, <<MaxAmount>>}

RECURSIVE DecimalValue(_)
DecimalValue(s) ==
  IF s = <<>> THEN 0 ELSE 10 * DecimalValue(SubSeq(s, 1, Len(s) - 1)) + s[Len(s)]

\* ethers.utils.parseEther throws on a string that is no decimal number.
ParseEtherThrows(s) == s = <<>>
parseEther(s) == DecimalValue(s) * Pow10(decimals)

(***************************************************************************)
(* The client: getBalanceAndClaimed.                                       *)
(***************************************************************************)
NoAccount == "null"

\* The (balance, claim status) of an account in a chain state.
ChainPair(bal, cl, acct) == <<bal[acct], cl[acct] = CLAIM_STATUS_CLAIMED>>

\* A getBalanceAndClaimed(account, provider) call: both reads are sent at once
\* (Promise.all) and each is answered from the chain state at its own time.
\* seen is history: the pairs the account had in the chain states since the call.
\* lastRead.newest is history: the latest-issued call that has completed.
NewRead(acct) ==
  [id |-> issued + 1, acct |-> acct, balDone |-> FALSE, bal |-> 0,
   clmDone |-> FALSE, clm |-> FALSE,
   seen |-> {ChainPair(balances, claimants, acct)}]

\* The in-flight calls after a chain step: each has seen the new chain state.
Observed(rs, bal, cl) ==
  {[r EXCEPT !.seen = @ \cup {ChainPair(bal, cl, r.acct)}] : r \in rs}

\* Which balance a call reads.
ReadsBalanceOfCurrentAccount(r) == IF account = NoAccount THEN 0 ELSE balances[account]
ReadBalanceOf(r) == balances[r.acct]

\* A mined transaction as the client sees it: nothing of the client changes but
\* the history of the calls in flight.
Mined ==
  /\ reads' = Observed(reads, balances', claimants')
  /\ UNCHANGED <<account, balance, claimed, issued, cacheFrom, lastRead, actions>>

\* .then(/* set balance and claimed */) of a call whose two reads returned.
Complete(r) ==
  /\ balance' = formatEther(r.bal)
  /\ claimed' = r.clm
  /\ cacheFrom' = r.id
  /\ lastRead' = [id |-> r.id, acct |-> r.acct, bal |-> r.bal, clm |-> r.clm,
                  result |-> <<formatEther(r.bal), r.clm>>, seen |-> r.seen,
                  newest |-> IF r.id > lastRead.newest THEN r.id
                             ELSE lastRead.newest]

\* dummyToken.balanceOf(account) returns.
BalanceOfReturns ==
  \E r \in reads :
    /\ ~r.balDone
    /\ LET done == [r EXCEPT !.balDone = TRUE, !.bal = ReadBalanceOf(r)]
       IN  IF ~r.clmDone
             THEN /\ reads' = (reads \ {r}) \cup {done}
                  /\ UNCHANGED <<balance, claimed, cacheFrom, lastRead>>
             ELSE /\ reads' = reads \ {r}
                  /\ Complete(done)
    /\ UNCHANGED <<chainVars, account, issued, actions, claimH, stakeH, rewardH>>

\* dummyToken.hasClaimed(account) returns.
HasClaimedReturns ==
  \E r \in reads :
    /\ ~r.clmDone
    /\ LET done == [r EXCEPT !.clmDone = TRUE, !.clm = hasClaimed(r.acct)]
       IN  IF ~r.balDone
             THEN /\ reads' = (reads \ {r}) \cup {done}
                  /\ UNCHANGED <<balance, claimed, cacheFrom, lastRead>>
             ELSE /\ reads' = reads \ {r}
                  /\ Complete(done)
    /\ UNCHANGED <<chainVars, account, issued, actions, claimH, stakeH, rewardH>>

\* A read fails (network): Promise.all rejects, .catch() takes it, the cached
\* values stay.
ReadFails ==
  \E r \in reads :
    /\ reads' = reads \ {r}
    /\ UNCHANGED <<chainVars, account, balance, claimed, issued, cacheFrom,
                   lastRead, actions, claimH, stakeH, rewardH>>

\* window.ethereum.on("accountsChanged", ...): setAccount, and the effect that
\* depends on [provider, account] issues a new call.
AccountsChanged ==
  \E a \in Accounts :
    /\ a # account
    /\ actions < MaxActions
    /\ account' = a
    /\ actions' = actions + 1
    /\ reads' = reads \cup {NewRead(a)}
    /\ issued' = issued + 1
    /\ UNCHANGED <<chainVars, balance, claimed, cacheFrom, lastRead, claimH,
                   stakeH, rewardH>>

(***************************************************************************)
(* The client: the claim handler.                                          *)
(*   const tx = await dummyToken.claim(); await tx.wait();                 *)
(*   getBalanceAndClaimed(account, provider).then(...).catch();            *)
(***************************************************************************)
Idle(h) == h.pc \in {"idle", "done", "failed"}

ClaimIdle == [pc |-> "idle", account |-> NoAccount, tx |-> "none", sent |-> 0]

\* Where a handler goes when an awaited promise rejects.
Rejects(h) == [h EXCEPT !.pc = "failed"]

\* The button is clicked: the signer is taken and claim() is sent to the wallet.
ClaimClick ==
  /\ Idle(claimH)
  /\ account # NoAccount
  /\ actions < MaxActions
  /\ actions' = actions + 1
  /\ claimH' = [pc |-> "send", account |-> account, tx |-> "none", sent |-> 0]
  /\ UNCHANGED <<chainVars, account, balance, claimed, reads, issued, cacheFrom,
                 lastRead, stakeH, rewardH>>

\* The wallet signs and broadcasts: dummyToken.claim() resolves with tx.
ClaimSubmitted ==
  /\ claimH.pc = "send"
  /\ claimH' = [claimH EXCEPT !.pc = "wait", !.tx = "pending", !.sent = @ + 1]
  /\ UNCHANGED <<chainVars, account, balance, claimed, reads, issued, cacheFrom,
                 lastRead, actions, stakeH, rewardH>>

\* The claim transaction is mined.
ClaimMined ==
  /\ claimH.tx = "pending"
  /\ claim(claimH.account)
  /\ claimH' = [claimH EXCEPT !.tx = IF lastTx'.ok THEN "mined" ELSE "reverted"]
  /\ Mined
  /\ UNCHANGED <<stakeH, rewardH>>

\* tx.wait() resolves: the handler issues a new getBalanceAndClaimed call with
\* the account of the render it was created in.
ClaimConfirmed ==
  /\ claimH.pc = "wait"
  /\ claimH.tx = "mined"
  /\ claimH' = [claimH EXCEPT !.pc = "done"]
  /\ reads' = reads \cup {NewRead(claimH.account)}
  /\ issued' = issued + 1
  /\ UNCHANGED <<chainVars, account, balance, claimed, cacheFrom, lastRead,
                 actions, stakeH, rewardH>>

\* The wallet request is rejected, the network fails, or the transaction
\* reverted: the awaited promise rejects and so does claim().
ClaimFails ==
  /\ claimH.pc \in {"send", "wait"}
  /\ claimH' = Rejects(claimH)
  /\ UNCHANGED <<chainVars, account, balance, claimed, reads, issued, cacheFrom,
                 lastRead, actions, stakeH, rewardH>>

(***************************************************************************)
(* The client: handleStake.                                                *)
(*   const amount = ethers.utils.parseEther(stake);                        *)
(*   const allowance = await dummyToken.allowance(account, STAKING);       *)
(*   if (allowance.lt(amount)) {                                           *)
(*     const tx = await dummyToken.approve(STAKING, amount);               *)
(*     await tx.wait();                                                    *)
(*   }                                                                     *)
(*   const tx = await staking.stake(amount, { gasLimit: 1_000_000 });      *)
(*   await tx.wait();                                                      *)
(* log is history: the transactions the action submitted, in order.        *)
(***************************************************************************)
StakeIdle ==
  [pc |-> "idle", account |-> NoAccount, amount |-> 0, allowance |-> 0,
   approveTx |-> "none", stakeTx |-> "none", log |-> <<>>, failedAt |-> "none"]

\* allowance.lt(amount)
ApprovesWhenEnough(allowance, amount) == allowance >= amount
ApprovesWhenEqual(allowance, amount) == allowance <= amount
NeedsApproval(allowance, amount) == allowance < amount

\* The amount handleStake approves.
ApproveAmount(h) == h.amount

\* await tx.wait() of the approval: the approval is mined.
ApprovalNotAwaited(h) == h.approveTx \in {"pending", "mined"}
ApprovalConfirmed(h) == h.approveTx = "mined"

\* Where handleStake goes when an awaited promise rejects.
StakeSwallowsError(h) ==
  IF h.pc \in {"allowance", "approveSend", "approveWait"}
    THEN [h EXCEPT !.pc = "stakeSend", !.failedAt = h.pc]
    ELSE [h EXCEPT !.pc = "failed", !.failedAt = h.pc]
StakeRejects(h) == [h EXCEPT !.pc = "failed", !.failedAt = h.pc]

\* The form is submitted: the amount is parsed and the allowance read is sent.
StakeSubmit ==
  \E s \in StakeInputs :
    /\ Idle(stakeH)
    /\ account # NoAccount
    /\ actions < MaxActions
    /\ actions' = actions + 1
    /\ stakeH' =
         IF ParseEtherThrows(s)
           THEN [StakeIdle EXCEPT !.pc = "failed", !.account = account,
                                  !.failedAt = "parseEther"]
           ELSE [StakeIdle EXCEPT !.pc = "allowance", !.account = account,
                                  !.amount = parseEther(s)]
    /\ UNCHANGED <<chainVars, account, balance, claimed, reads, issued,
                   cacheFrom, lastRead, claimH, rewardH>>

\* dummyToken.allowance(account, STAKING_CONTRACT.address) returns; the handler
\* compares and sends approve or stake to the wallet.
StakeAllowanceReturns ==
  /\ stakeH.pc = "allowance"
  /\ LET allowance == allowances[<<stakeH.account, STAKING_ADDRESS>>]
     IN  stakeH' = [stakeH EXCEPT
           !.allowance = allowance,
           !.pc = IF NeedsApproval(allowance, stakeH.amount)
                    THEN "approveSend" ELSE "stakeSend"]
  /\ UNCHANGED <<chainVars, account, balance, claimed, reads, issued,
                 cacheFrom, lastRead, actions, claimH, rewardH>>

\* The wallet signs and broadcasts the approval.
ApproveSubmitted ==
  /\ stakeH.pc = "approveSend"
  /\ stakeH' = [stakeH EXCEPT
       !.pc = "approveWait",
       !.approveTx = "pending",
       !.log = Append(@, [op |-> "approve", spender |-> STAKING_ADDRESS,
                          amount |-> ApproveAmount(stakeH)])]
  /\ UNCHANGED <<chainVars, account, balance, claimed, reads, issued,
                 cacheFrom, lastRead, actions, claimH, rewardH>>

\* The approval is mined.
ApproveMined ==
  /\ stakeH.approveTx = "pending"
  /\ approve(stakeH.account, STAKING_ADDRESS, stakeH.log[1].amount)
  /\ stakeH' = [stakeH EXCEPT !.approveTx = "mined"]
  /\ Mined
  /\ UNCHANGED <<claimH, rewardH>>

\* tx.wait() of the approval resolves; stake is sent to the wallet.
ApproveConfirmed ==
  /\ stakeH.pc = "approveWait"
  /\ ApprovalConfirmed(stakeH)
  /\ stakeH' = [stakeH EXCEPT !.pc = "stakeSend"]
  /\ UNCHANGED <<chainVars, account, balance, claimed, reads, issued,
                 cacheFrom, lastRead, actions, claimH, rewardH>>

\* The wallet signs and broadcasts the stake.
StakeSubmitted ==
  /\ stakeH.pc = "stakeSend"
  /\ stakeH' = [stakeH EXCEPT
       !.pc = "stakeWait",
       !.stakeTx = "pending",
       !.log = Append(@, [op |-> "stake", spender |-> STAKING_ADDRESS,
                          amount |-> stakeH.amount])]
  /\ UNCHANGED <<chainVars, account, balance, claimed, reads, issued,
                 cacheFrom, lastRead, actions, claimH, rewardH>>

\* The stake is mined.
StakeMined ==
  /\ stakeH.stakeTx = "pending"
  /\ stake(stakeH.account, stakeH.amount)
  /\ stakeH' = [stakeH EXCEPT !.stakeTx = IF lastTx'.ok THEN "mined" ELSE "reverted"]
  /\ Mined
  /\ UNCHANGED <<claimH, rewardH>>

\* tx.wait() of the stake resolves.
StakeConfirmed ==
  /\ stakeH.pc = "stakeWait"
  /\ stakeH.stakeTx = "mined"
  /\ stakeH' = [stakeH EXCEPT !.pc = "done"]
  /\ UNCHANGED <<chainVars, account, balance, claimed, reads, issued,
                 cacheFrom, lastRead, actions, claimH, rewardH>>

\* An awaited promise of handleStake rejects: the allowance read fails, the
\* wallet request is rejected, the network fails or the transaction reverted.
StakeFails ==
  /\ stakeH.pc \in {"allowance", "approveSend", "approveWait", "stakeSend",
                    "stakeWait"}
  /\ stakeH' = StakeRejects(stakeH)
  /\ UNCHANGED <<chainVars, account, balance, claimed, reads, issued,
                 cacheFrom, lastRead, actions, claimH, rewardH>>

(***************************************************************************)
(* The client: handleClaimReward.                                          *)
(*   const tx = await staking.claimReward({ gasLimit: 1_000_000 });        *)
(*   await tx.wait();                                                      *)
(***************************************************************************)
ClaimRewardClick ==
  /\ Idle(rewardH)
  /\ account # NoAccount
  /\ actions < MaxActions
  /\ actions' = actions + 1
  /\ rewardH' = [pc |-> "send", account |-> account, tx |-> "none", sent |-> 0]
  /\ UNCHANGED <<chainVars, account, balance, claimed, reads, issued,
                 cacheFrom, lastRead, claimH, stakeH>>

ClaimRewardSubmitted ==
  /\ rewardH.pc = "send"
  /\ rewardH' = [rewardH EXCEPT !.pc = "wait", !.tx = "pending", !.sent = @ + 1]
  /\ UNCHANGED <<chainVars, account, balance, claimed, reads, issued,
                 cacheFrom, lastRead, actions, claimH, stakeH>>

ClaimRewardMined ==
  /\ rewardH.tx = "pending"
  /\ claimReward(rewardH.account)
  /\ rewardH' = [rewardH EXCEPT !.tx = IF lastTx'.ok THEN "mined" ELSE "reverted"]
  /\ Mined
  /\ UNCHANGED <<claimH, stakeH>>

ClaimRewardConfirmed ==
  /\ rewardH.pc = "wait"
  /\ rewardH.tx = "mined"
  /\ rewardH' = [rewardH EXCEPT !.pc = "done"]
  /\ UNCHANGED <<chainVars, account, balance, claimed, reads, issued,
                 cacheFrom, lastRead, actions, claimH, stakeH>>

ClaimRewardFails ==
  /\ rewardH.pc \in {"send", "wait"}
  /\ rewardH' = Rejects(rewardH)
  /\ UNCHANGED <<chainVars, account, balance, claimed, reads, issued,
                 cacheFrom, lastRead, actions, claimH, stakeH>>

(***************************************************************************)
(* Specifications.                                                         *)
(***************************************************************************)
ClientInit ==
  /\ account = NoAccount
  /\ balance = <<>>
  /\ claimed = FALSE
  /\ reads = {}
  /\ issued = 0
  /\ cacheFrom = 0
  /\ lastRead = [id |-> 0, acct |-> NoAccount, bal |-> 0, clm |-> FALSE,
                 result |-> <<<<>>, FALSE>>, seen |-> {}, newest |-> 0]
  /\ actions = 0
  /\ claimH = ClaimIdle
  /\ stakeH = StakeIdle
  /\ rewardH = ClaimIdle

Init == ChainInit /\ ClientInit

\* Transactions sent to the chain by any account (another tab, another wallet).
Others == Mined /\ UNCHANGED <<claimH, stakeH, rewardH>>
ChainClaim == (\E a \in Accounts : claim(a)) /\ Others
ChainTransfer ==
  (\E a \in Accounts, to \in Addresses, n \in Amounts : transfer(a, to, n)) /\ Others
ChainApprove ==
  (\E a \in Accounts, s \in Addresses, n \in Amounts \cup {0, UINT_MAX} :
     approve(a, s, n)) /\ Others
ChainTransferFrom ==
  (\E s \in Accounts, f \in Accounts, to \in Addresses, n \in Amounts :
     transferFrom(s, f, to, n)) /\ Others
ChainStake == (\E a \in Accounts, n \in Amounts : stake(a, n)) /\ Others
ChainWithdraw == (\E a \in Accounts, n \in Amounts : withdraw(a, n)) /\ Others
ChainClaimReward == (\E a \in Accounts : claimReward(a)) /\ Others

\* The contracts alone: every transaction any account can send.
Next ==
  \/ ChainClaim
  \/ ChainTransfer
  \/ ChainApprove
  \/ ChainTransferFrom
  \/ ChainStake
  \/ ChainWithdraw
  \/ ChainClaimReward

Spec == Init /\ [][Next]_vars

\* The client on the chain: the handlers, the reads, the mining of what the
\* handlers submitted, and the transactions of others that the handlers and
\* the reads can observe.
NextClient ==
  \/ AccountsChanged
  \/ BalanceOfReturns
  \/ HasClaimedReturns
  \/ ReadFails
  \/ ClaimClick
  \/ ClaimSubmitted
  \/ ClaimMined
  \/ ClaimConfirmed
  \/ ClaimFails
  \/ StakeSubmit
  \/ StakeAllowanceReturns
  \/ ApproveSubmitted
  \/ ApproveMined
  \/ ApproveConfirmed
  \/ StakeSubmitted
  \/ StakeMined
  \/ StakeConfirmed
  \/ StakeFails
  \/ ClaimRewardClick
  \/ ClaimRewardSubmitted
  \/ ClaimRewardMined
  \/ ClaimRewardConfirmed
  \/ ClaimRewardFails

SpecClient == Init /\ [][NextClient]_vars

(***************************************************************************)
(* The contract (Spec).                                                    *)
(***************************************************************************)
Succeeded(a) == \E i \in DOMAIN claimLog[a] : claimLog[a][i] = "ok"

\* C1: for every account, in any sequence of transactions by any accounts,
\* the first claim call of the account succeeds and each later one fails with
\* "Already claimed"; so an account has at most one successful claim.
C1_ClaimOnce ==
  \A a \in Accounts : \A i \in DOMAIN claimLog[a] :
    claimLog[a][i] = IF i = 1 THEN "ok" ELSE "Already claimed"

C1_Witness ==
  \E a \in Accounts : Len(claimLog[a]) >= 2 /\ lastTx.error = "Already claimed"

\* C2: for every account, the deployer included, hasClaimed(account) is false
\* in every state before the account's first successful claim and true in
\* every state after it.
C2_HasClaimed == \A a \in Accounts : hasClaimed(a) <=> Succeeded(a)

C2_Witness ==
  \E a \in Accounts :
    /\ balances[a] >= initialSupply
    /\ hasClaimed(a)
    /\ \E b \in Accounts : ~hasClaimed(b)

\* C3: once the status of an account is CLAIMED it is CLAIMED in every later
\* state, whatever transaction follows.
C3_Monotonic ==
  [][\A a \in Accounts :
       claimants[a] = CLAIM_STATUS_CLAIMED => claimants'[a] = CLAIM_STATUS_CLAIMED]_vars

C3_Witness ==
  \E a \in Accounts :
    /\ claimants[a] = CLAIM_STATUS_CLAIMED
    /\ lastTx.op \in {"transfer", "transferFrom", "approve", "claim"}
    /\ lastTx.ok
    /\ lastTx.sender # a
    /\ blockNumber >= 3

\* C4: in every state between transactions, for every account, the total
\* amount claim minted to it is 1000 * 10^decimals when its status is CLAIMED
\* and 0 when its status is PENDING.
C4_MintWithStatus ==
  \A a \in Accounts :
    mintedByClaim[a] =
      IF claimants[a] = CLAIM_STATUS_CLAIMED THEN 1000 * Pow10(decimals) ELSE 0

C4_Witness ==
  \E a, b \in Accounts :
    /\ claimants[a] = CLAIM_STATUS_CLAIMED
    /\ mintedByClaim[a] = 1000 * Pow10(decimals)
    /\ balances[a] = 1000 * Pow10(decimals)
    /\ claimants[b] = CLAIM_STATUS_PENDING
    /\ mintedByClaim[b] = 0

\* C8 as stated: every allowance is changed by approval transactions only;
\* every other transaction, the staking vault's pull of the staked tokens
\* included, leaves every allowance as it was.
C8_OnlyApprovalsChangeAllowances ==
  [][allowances' # allowances => lastTx'.op = "approve"]_vars

\* The allowance entry a transferFrom spends: (owner, caller), the caller of
\* the token being the vault when the transaction is a stake.
SpentEntry(tx) ==
  <<tx.from, IF tx.op = "stake" THEN STAKING_ADDRESS ELSE tx.sender>>

\* C8 amended: an allowance changes only in an approval transaction and in a
\* successful transferFrom (as such, or as the pull of a stake), which lowers
\* the allowance of (owner, spender) by the amount moved and changes no other.
C8_ApprovalsAndSpending ==
  [][allowances' # allowances =>
       \/ lastTx'.op = "approve"
       \/ /\ lastTx'.op \in {"transferFrom", "stake"}
          /\ lastTx'.ok
          /\ allowances' = [allowances EXCEPT
                              ![SpentEntry(lastTx')] = @ - lastTx'.amount]]_vars

C8_Witness ==
  /\ lastTx.op = "stake"
  /\ lastTx.ok
  /\ staked[lastTx.sender] = lastTx.amount
  /\ allowances[<<lastTx.sender, STAKING_ADDRESS>>] = MaxAmount * Pow10(decimals) - lastTx.amount
  /\ lastTx.amount < MaxAmount * Pow10(decimals)

(***************************************************************************)
(* The client (SpecClient).                                                *)
(***************************************************************************)
Count(log, op) == Cardinality({i \in DOMAIN log : log[i].op = op})

\* C5: when handleStake reads an allowance smaller than the amount to stake,
\* the action submits exactly one approval, and submits it before the stake.
C5_OneApprovalBeforeStake ==
  /\ Count(stakeH.log, "approve") <= 1
  /\ (stakeH.allowance < stakeH.amount /\ Count(stakeH.log, "stake") > 0) =>
       /\ Len(stakeH.log) = 2
       /\ stakeH.log[1].op = "approve"
       /\ stakeH.log[2].op = "stake"
  /\ (stakeH.allowance < stakeH.amount
        /\ stakeH.pc \in {"approveWait", "stakeSend", "stakeWait", "done"}) =>
       Count(stakeH.log, "approve") = 1

C5_Witness ==
  /\ stakeH.pc = "done"
  /\ stakeH.allowance < stakeH.amount
  /\ Len(stakeH.log) = 2
  /\ staked[stakeH.account] = stakeH.amount

\* C6: the approval approves exactly the amount to stake for the staking
\* contract, and the stake is submitted only after the approval is confirmed.
C6_ExactApprovalConfirmedFirst ==
  /\ \A i \in DOMAIN stakeH.log :
       /\ stakeH.log[i].amount = stakeH.amount
       /\ stakeH.log[i].spender = STAKING_ADDRESS
  /\ (stakeH.allowance < stakeH.amount /\ stakeH.stakeTx # "none") =>
       stakeH.approveTx = "mined"
  /\ (lastTx.op = "approve" /\ stakeH.approveTx = "mined"
        /\ stakeH.pc = "approveWait") =>
       allowances[<<stakeH.account, STAKING_ADDRESS>>] = stakeH.amount

C6_Witness ==
  /\ stakeH.allowance < stakeH.amount
  /\ stakeH.stakeTx = "pending"
  /\ stakeH.approveTx = "mined"
  /\ allowances[<<stakeH.account, STAKING_ADDRESS>>] = stakeH.amount

\* C7 as stated: the pair getBalanceAndClaimed returns is the (balance, claim
\* status) the account had in one single chain state of the time of the call.
C7_PairOfOneChainState ==
  lastRead.id # 0 =>
    \E p \in lastRead.seen : lastRead.result = <<formatEther(p[1]), p[2]>>

\* C7 amended: each of the two values returned is the value the account had
\* in some chain state between the call and its completion (the two may come
\* from different chain states); when the account's balance and claim status
\* did not change in between, the pair is that of the one chain state.
C7_EachValueOfSomeChainState ==
  lastRead.id # 0 =>
    /\ \E p \in lastRead.seen : lastRead.result[1] = formatEther(p[1])
    /\ \E p \in lastRead.seen : lastRead.result[2] = p[2]
    /\ Cardinality(lastRead.seen) = 1 =>
         \E p \in lastRead.seen : lastRead.result = <<formatEther(p[1]), p[2]>>

C7_Witness ==
  /\ lastRead.id # 0
  /\ lastTx.op = "claim"
  /\ lastTx.sender = lastRead.acct
  /\ <<lastRead.bal, lastRead.clm>> \notin lastRead.seen

\* C9: a failure is surfaced with no retry: every transaction is submitted at
\* most once per user action, a handler whose awaited promise rejected ends
\* failed, and when handleStake fails before the stake (parse, allowance read,
\* approval submission, approval confirmation) no stake is submitted.
C9_FailuresSurfaceWithoutRetry ==
  /\ claimH.sent <= 1
  /\ rewardH.sent <= 1
  /\ Count(stakeH.log, "approve") <= 1
  /\ Count(stakeH.log, "stake") <= 1
  /\ stakeH.failedAt # "none" => stakeH.pc = "failed"
  /\ stakeH.failedAt \in {"parseEther", "allowance", "approveSend", "approveWait"} =>
       stakeH.stakeTx = "none" /\ Count(stakeH.log, "stake") = 0
  /\ claimH.tx = "reverted" => claimH.pc \in {"wait", "failed"}
  /\ rewardH.tx = "reverted" => rewardH.pc \in {"wait", "failed"}
  /\ stakeH.stakeTx = "reverted" => stakeH.pc \in {"stakeWait", "failed"}

C9_Witness ==
  /\ stakeH.pc = "failed"
  /\ stakeH.failedAt = "approveWait"
  /\ stakeH.approveTx = "mined"
  /\ claimH.pc = "failed"

\* C10: once every read in flight has completed, the cached balance and claim
\* status are those of the latest-issued read that completed: a read issued
\* earlier never overwrites them.
C10_CacheHoldsNewestRead == reads = {} => cacheFrom = lastRead.newest

(***************************************************************************)
(* The contract, continued (Spec).                                         *)
(***************************************************************************)
\* The step mines a transaction.
MinesTx == blockNumber' = blockNumber + 1

\* C11: a claim call that fails with "Already claimed" leaves every balance,
\* the total supply and every claim status as they were.
C11_FailedClaimChangesNothing ==
  [][(MinesTx /\ lastTx'.op = "claim" /\ lastTx'.error = "Already claimed") =>
       /\ balances' = balances
       /\ totalSupply' = totalSupply
       /\ claimants' = claimants]_vars

C11_Witness ==
  /\ lastTx.op = "claim"
  /\ lastTx.error = "Already claimed"
  /\ claimLog[lastTx.sender] = <<"ok", "Already claimed">>
  /\ totalSupply = initialSupply + rewardAmount
  /\ balances[lastTx.sender] \in {rewardAmount, initialSupply + rewardAmount}

\* C12: claim acts on its caller only: a successful claim by A changes A's
\* status, A's balance and the total supply and nothing of any other account B
\* (status, balance, and with the status whether B's next claim succeeds); and
\* whatever the transaction, the status of B changes only in a claim sent by B.
C12_ClaimActsOnCallerOnly ==
  [][/\ (MinesTx /\ lastTx'.op = "claim" /\ lastTx'.ok) =>
          /\ claimants'[lastTx'.sender] = CLAIM_STATUS_CLAIMED
          /\ balances'[lastTx'.sender] =
               balances[lastTx'.sender] + 1000 * Pow10(decimals)
          /\ totalSupply' = totalSupply + 1000 * Pow10(decimals)
          /\ \A b \in Addresses \ {lastTx'.sender} : balances'[b] = balances[b]
          /\ \A b \in Accounts \ {lastTx'.sender} :
               /\ claimants'[b] = claimants[b]
               /\ ClaimError(b)' = ClaimError(b)
     /\ \A b \in Accounts :
          claimants'[b] # claimants[b] =>
            MinesTx /\ lastTx'.op = "claim" /\ lastTx'.sender = b]_vars

C12_Witness ==
  /\ lastTx.op = "claim"
  /\ lastTx.ok
  /\ blockNumber = 3
  /\ \E b \in Accounts \ {lastTx.sender} :
       /\ claimLog[b] = <<"ok">>
       /\ claimLog[lastTx.sender] = <<"ok">>
       /\ balances[b] = initialSupply + rewardAmount - Pow10(decimals)

RECURSIVE SumOver(_, _)
SumOver(f, S) ==
  IF S = {} THEN 0
  ELSE LET x == CHOOSE y \in S : TRUE IN f[x] + SumOver(f, S \ {x})

\* C13: in every state the total supply is 1,000,000 * 10^decimals plus
\* 1000 * 10^decimals for each account whose status is CLAIMED, and is the sum
\* of the balances of all addresses; so no transfer changes it.
C13_SupplyAccounting ==
  /\ totalSupply =
       1000000 * Pow10(decimals)
         + 1000 * Pow10(decimals)
             * Cardinality({a \in Accounts : claimants[a] = CLAIM_STATUS_CLAIMED})
  /\ totalSupply = SumOver(balances, Addresses)

C13_Witness ==
  /\ lastTx.op \in {"transfer", "transferFrom"}
  /\ lastTx.ok
  /\ lastTx.from # lastTx.to
  /\ \E a \in Accounts : claimants[a] = CLAIM_STATUS_CLAIMED
  /\ \E a \in Accounts : claimants[a] = CLAIM_STATUS_PENDING
  /\ totalSupply = (1000000 + 1000) * Pow10(decimals)

(***************************************************************************)
(* The client, continued (SpecClient).                                     *)
(***************************************************************************)
\* handleStake has the answer of its allowance read.
AllowanceWasRead ==
  \/ stakeH.pc \in {"approveSend", "approveWait", "stakeSend", "stakeWait", "done"}
  \/ /\ stakeH.pc = "failed"
     /\ stakeH.failedAt \in {"approveSend", "approveWait", "stakeSend", "stakeWait"}

\* C14: when handleStake reads an allowance greater than or equal to the
\* amount to stake, it submits no approval: it goes to the stake at once, and
\* the stake is the only transaction of the action.
C14_NoApprovalWhenAllowanceSuffices ==
  (AllowanceWasRead /\ stakeH.allowance >= stakeH.amount) =>
    /\ stakeH.pc \notin {"approveSend", "approveWait"}
    /\ stakeH.failedAt \notin {"approveSend", "approveWait"}
    /\ stakeH.approveTx = "none"
    /\ Count(stakeH.log, "approve") = 0
    /\ Len(stakeH.log) <= 1
    /\ stakeH.pc \in {"stakeWait", "done"} =>
         /\ Len(stakeH.log) = 1
         /\ stakeH.log[1].op = "stake"
         /\ stakeH.log[1].amount = stakeH.amount

C14_Witness ==
  /\ stakeH.pc = "done"
  /\ stakeH.amount > 0
  /\ stakeH.allowance = stakeH.amount
  /\ Len(stakeH.log) = 1
  /\ stakeH.log[1].op = "stake"
  /\ staked[stakeH.account] = stakeH.amount

====
